---- MODULE Spec2Model ----
(***************************************************************************)
(* beatble: a gamepad-to-BLE bridge.                                       *)
(*                                                                         *)
(* The model follows the three execution units of the program:             *)
(*   - main / run_peripheral (src/src/main.rs),                            *)
(*   - the input handler thread of create_input_handler, which owns the    *)
(*     working copy key_input and stores it into the shared AtomicCell     *)
(*     (src/src/input/gamepad.rs),                                         *)
(*   - the characteristic handler (the dispatcher) and the notifier tasks  *)
(*     it spawns, one per NotifySubscribe                                  *)
(*     (src/src/ble/key_input/characteristics.rs),                         *)
(* and the pure payload codec KeyInput::to_payload (src/src/input/ble.rs). *)
(*                                                                         *)
(* Interleaving is at the granularity of the shared accesses: one load or  *)
(* store of the AtomicBool, one load or store of the AtomicCell, one       *)
(* try_send.  A panic inside a spawned tokio task or a std thread ends     *)
(* that task or thread only (Cargo's default panic strategy, unwind).      *)
(***************************************************************************)
EXTENDS Integers, Sequences, FiniteSets, TLC

(* ---------------------------------------------------------------------- *)
(* Bounds of the model                                                     *)
(* ---------------------------------------------------------------------- *)
MaxSamplers == 2
MaxFrames == 2
MaxGamepads == 2
MaxHeld == 2

(* ---------------------------------------------------------------------- *)
(* Program constants                                                       *)
(* ---------------------------------------------------------------------- *)
B1 == 1
B2 == 2
B3 == 4
B4 == 8
B5 == 16
B6 == 32
B7 == 64
E1 == 1
E2 == 2
E3 == 4
E4 == 8
U8Mod == 256
CounterStep == 2
AxisScale == 128
U8Max == 255
BUTTON == 1
AXIS == 2
INIT == 128
I16Mod == 65536
AxisShift == 256

VARIABLES
    gamepads,     \* number of gamepads gilrs enumerates at startup
    exit_code,    \* "running", or how the process ended: "success" (0), "failure" (non-zero)
    main_pc,      \* position of main / run_peripheral
    thread_pc,    \* position of the input handler thread
    join_pc,      \* position of the task joining the input handler thread
    key_input,    \* the input handler's working copy
    cell,         \* the shared AtomicCell<KeyInput>
    dispatcher,   \* the characteristic handler task
    notifying,    \* the AtomicBool shared by the dispatcher and every notifier
    samplers,     \* the spawned notifier tasks, in spawn order
    chans,        \* the notification channel of each NotifySubscribe: whether its
                  \* receiver lives, and the sequence bytes (byte 4, byte 9) of the
                  \* last two frames queued on it
    hist,         \* per notifier (history): whether a NotifyUnsubscribe was
                  \* dispatched since it was started, whether one ended its
                  \* subscription, and the frames it queued after that one
    codec,        \* one call of a pure function on its own (to_payload, the
                  \* axis conversion): arguments and result
    stored,       \* (history) the value of the most recent completed store
                  \* into the shared cell
    dropped,      \* (history) "no", "seen": the input handler has seen a
                  \* Disconnected or Dropped event of the selected gamepad,
                  \* "served": and has processed a press, release or axis
                  \* event after it
    last,         \* (history) the mapped buttons whose last press or release
                  \* event of the selected gamepad was a press, and the value
                  \* of its last axis event (<<>>: none yet)
    js            \* the raw joystick device and the loop reading it

vars == <<gamepads, exit_code, main_pc, thread_pc, join_pc, key_input,
          cell, dispatcher, notifying, samplers, chans, hist, codec,
          stored, dropped, last, js>>

(* ---------------------------------------------------------------------- *)
(* KeyInput and the payload codec                                          *)
(* ---------------------------------------------------------------------- *)
KeyInputDefault == [scratch |-> 0, normal_button |-> 0, option_button |-> 0]

KeyInputInit == [scratch |-> 0, normal_button |-> 0, option_button |-> 0]

\* AtomicCell<KeyInput>: KeyInput is 3 bytes aligned to 4, so the cell is one
\* 32-bit atomic; a store replaces the whole value and a load copies the
\* whole value, each in one atomic step.
\* Variant: a store leaves the normal-button byte of the slot as it was.
store_Torn(slot, value) == [value EXCEPT !.normal_button = slot.normal_button]

store(slot, value) == value

load(slot) == slot

\* Result of a call that panicked on arithmetic overflow.
OverflowPanic == <<>>

\* The frame of a call that returns.
Frame(s, counter) ==
    <<s.scratch, 0, s.normal_button, s.option_button, counter,
      s.scratch, 0, s.normal_button, s.option_button, (counter + 1) % U8Mod>>

\* KeyInput::to_payload: the outcomes of one call.  The u8 addition
\* counter + 1 overflows for counter = 255: a build with overflow checks
\* (cargo's dev profile) panics there, a build without them (release) wraps.
to_payload(s, counter) ==
    IF counter + 1 > U8Max
    THEN {OverflowPanic, Frame(s, counter)}
    ELSE {Frame(s, counter)}

(* ---------------------------------------------------------------------- *)
(* Initial state: the process has just started                             *)
(* ---------------------------------------------------------------------- *)
\* The raw joystick device is not opened: no path, no error, nothing read.
NoRead == [ok |-> FALSE, value |-> 0, typ |-> 0, number |-> 0, errno |-> "none"]

JsClosed == [pc |-> "closed", path |-> "none", err |-> "none", rec |-> NoRead,
             out |-> <<>>]

\* (History) no event was processed yet.
NoEvents == [pressed |-> {}, axis |-> <<>>]

NoCall == [s |-> KeyInputDefault, c |-> 0, called |-> FALSE, out |-> <<>>]

\* Everything but the gamepads attached.
InitState ==
    /\ exit_code = "running"
    /\ main_pc = "create_input_handler"
    /\ thread_pc = "none"
    /\ join_pc = "none"
    /\ key_input = KeyInputInit
    /\ cell = KeyInputInit
    /\ dispatcher = "none"
    /\ notifying = FALSE
    /\ samplers = <<>>
    /\ chans = <<>>
    /\ hist = <<>>
    /\ stored = KeyInputInit
    /\ dropped = "no"
    /\ last = NoEvents
    /\ js = JsClosed

InitProgram ==
    /\ gamepads \in {0, 1}
    /\ InitState

Init ==
    /\ InitProgram
    /\ codec = NoCall

Running == exit_code = "running"

(* ---------------------------------------------------------------------- *)
(* main and run_peripheral                                                 *)
(* ---------------------------------------------------------------------- *)
\* The process ends: every thread and task ends with it, and its memory is
\* gone.
ProcessExit(code) ==
    /\ exit_code' = code
    /\ thread_pc' = "none"
    /\ join_pc' = "none"
    /\ key_input' = KeyInputInit
    /\ cell' = KeyInputInit
    /\ dispatcher' = "none"
    /\ notifying' = FALSE
    /\ samplers' = <<>>
    /\ chans' = <<>>
    /\ hist' = <<>>
    /\ stored' = KeyInputInit
    /\ dropped' = "no"
    /\ last' = NoEvents

\* A peripheral call answered Err: `?` returns it from main, the process
\* ends with a non-zero status.
MainFail(at) ==
    /\ Running
    /\ main_pc = at
    /\ ProcessExit("failure")
    /\ UNCHANGED <<gamepads, main_pc, codec,
                   js>>

MainGoto(from, to) ==
    /\ Running
    /\ main_pc = from
    /\ main_pc' = to
    /\ UNCHANGED <<gamepads, exit_code, thread_pc, join_pc, key_input, cell,
                   dispatcher, notifying, samplers, chans, hist, codec,
                   stored, dropped, last, js>>

\* create_input_handler: spawns the input handler thread and the task that
\* joins it, and returns Ok(cell) without waiting for either.
MainCreateInputHandler ==
    /\ Running
    /\ main_pc = "create_input_handler"
    /\ thread_pc' = "spawned"
    /\ join_pc' = "joining"
    /\ main_pc' = "peripheral_new"
    /\ UNCHANGED <<gamepads, exit_code, key_input, cell, dispatcher,
                   notifying, samplers, chans, hist, codec,
                   stored, dropped, last, js>>

MainPeripheralNew ==
    \/ MainGoto("peripheral_new", "add_service")
    \/ MainFail("peripheral_new")

\* create_key_input builds the characteristic, which spawns the characteristic
\* handler, before add_service is called with it.
MainAddService ==
    \/ /\ Running
       /\ main_pc = "add_service"
       /\ dispatcher' = "running"
       /\ main_pc' = "is_powered"
       /\ UNCHANGED <<gamepads, exit_code, thread_pc, join_pc, key_input, cell,
                      notifying, samplers, chans, hist, codec,
                   stored, dropped, last, js>>
    \/ MainFail("add_service")

MainIsPowered ==
    \/ MainGoto("is_powered", "register_gatt")
    \/ MainFail("is_powered")

MainRegisterGatt ==
    \/ MainGoto("register_gatt", "start_advertising")
    \/ MainFail("register_gatt")

MainStartAdvertising ==
    \/ MainGoto("start_advertising", "wait_advertising")
    \/ MainFail("start_advertising")

MainWaitAdvertising ==
    \/ MainGoto("wait_advertising", "advertising")
    \/ MainFail("wait_advertising")

\* The last loop: advertising stopped ends main with Ok(()).
MainAdvertising ==
    \/ /\ Running
       /\ main_pc = "advertising"
       /\ ProcessExit("success")
       /\ UNCHANGED <<gamepads, main_pc, codec,
                   js>>
    \/ MainFail("advertising")

\* main has added the service / registered GATT / started advertising.
ServiceAdded == main_pc \in {"is_powered", "register_gatt", "start_advertising",
                             "wait_advertising", "advertising"}

(* ---------------------------------------------------------------------- *)
(* The input handler thread (generic gamepad backend)                      *)
(* ---------------------------------------------------------------------- *)
Buttons == {"South", "East", "North", "West", "C", "Z", "LeftTrigger", "LeftTrigger2",
            "RightTrigger", "RightTrigger2", "Select", "Start", "Mode", "LeftThumb",
            "RightThumb", "DPadUp", "DPadDown", "DPadLeft", "DPadRight", "Unknown"}

\* Option<T>: None is the empty sequence, Some(x) a one-element sequence.
None == <<>>

Some(x) == <<x>>

\* Variant: the x and y buttons (West, North) are taken for each other.
normal_button_XY(button) ==
    CASE button = "South" -> Some(B1)
      [] button = "East" -> Some(B2)
      [] button = "West" -> Some(B3)
      [] button = "North" -> Some(B4)
      [] button = "LeftTrigger" -> Some(B5)
      [] button = "LeftTrigger2" -> Some(B6)
      [] button = "RightTrigger" -> Some(B7)
      [] OTHER -> None

normal_button(button) ==
    CASE button = "South" -> Some(B1)
      [] button = "East" -> Some(B2)
      [] button = "North" -> Some(B3)
      [] button = "West" -> Some(B4)
      [] button = "LeftTrigger" -> Some(B5)
      [] button = "LeftTrigger2" -> Some(B6)
      [] button = "RightTrigger" -> Some(B7)
      [] OTHER -> None

option_button(button) ==
    CASE button = "Select" -> Some(E1)
      [] button = "Start" -> Some(E2)
      [] button = "Mode" -> Some(E3)
      [] button = "RightTrigger2" -> Some(E4)
      [] OTHER -> None

\* bitflags over single-bit flags
contains(bits, flag) == (bits \div flag) % 2 = 1

\* Variant: the flag is added, whether or not it is already there.
insert_Adding(bits, flag) == bits + flag

insert(bits, flag) == IF contains(bits, flag) THEN bits ELSE bits + flag

remove(bits, flag) == IF contains(bits, flag) THEN bits - flag ELSE bits

\* Variant: the cast keeps the low 8 bits.
AsU8_Wrapping(x) == x % U8Mod

\* `as u8` on a float: truncates, and saturates at the ends of the range.
AsU8(x) == IF x < 0 THEN 0 ELSE IF x > U8Max THEN U8Max ELSE x

\* ((value + 1.0) * 128.0) as u8, for value = n / 128.
AxisToScratch(n) == AsU8(n + AxisScale)

\* Variant: a disconnected or dropped controller releases everything.
ApplyEvent_DropClears(k, ev) ==
    CASE ev.type = "ButtonPressed" ->
            LET nb == normal_button(ev.button)
                ob == option_button(ev.button)
            IN  [k EXCEPT
                   !.normal_button = IF nb # None THEN insert(@, nb[1]) ELSE @,
                   !.option_button = IF ob # None THEN insert(@, ob[1]) ELSE @]
      [] ev.type = "ButtonReleased" ->
            LET nb == normal_button(ev.button)
                ob == option_button(ev.button)
            IN  [k EXCEPT
                   !.normal_button = IF nb # None THEN remove(@, nb[1]) ELSE @,
                   !.option_button = IF ob # None THEN remove(@, ob[1]) ELSE @]
      [] ev.type = "AxisChanged" -> [k EXCEPT !.scratch = AxisToScratch(ev.value)]
      [] ev.type \in {"Disconnected", "Dropped"} -> KeyInputInit
      [] OTHER -> k

\* The match on the event type: the working copy after the event.
ApplyEvent(k, ev) ==
    CASE ev.type = "ButtonPressed" ->
            LET nb == normal_button(ev.button)
                ob == option_button(ev.button)
            IN  [k EXCEPT
                   !.normal_button = IF nb # None THEN insert(@, nb[1]) ELSE @,
                   !.option_button = IF ob # None THEN insert(@, ob[1]) ELSE @]
      [] ev.type = "ButtonReleased" ->
            LET nb == normal_button(ev.button)
                ob == option_button(ev.button)
            IN  [k EXCEPT
                   !.normal_button = IF nb # None THEN remove(@, nb[1]) ELSE @,
                   !.option_button = IF ob # None THEN remove(@, ob[1]) ELSE @]
      [] ev.type = "AxisChanged" -> [k EXCEPT !.scratch = AxisToScratch(ev.value)]
      [] OTHER -> k

\* The thread takes the first enumerated gamepad;
\* expect("no gamepad detected") panics the thread when there is none.
InputThreadStart ==
    /\ Running
    /\ thread_pc = "spawned"
    /\ thread_pc' = IF gamepads > 0 THEN "watching" ELSE "panicked"
    /\ UNCHANGED <<gamepads, exit_code, main_pc, join_pc, key_input, cell,
                   dispatcher, notifying, samplers, chans, hist, codec,
                   stored, dropped, last, js>>

\* input_handler.join().expect(..) inside a spawned task.
JoinTask ==
    /\ Running
    /\ join_pc = "joining"
    /\ thread_pc = "panicked"
    /\ join_pc' = "panicked"
    /\ UNCHANGED <<gamepads, exit_code, main_pc, thread_pc, key_input, cell,
                   dispatcher, notifying, samplers, chans, hist, codec,
                   stored, dropped, last, js>>

\* The first enumerated gamepad.
gamepad_id == 1

\* Variant: no event is filtered.
Filtered_Never(id) == FALSE

\* if id != gamepad_id { continue }
Filtered(id) == id # gamepad_id

\* (History) what is known of disconnections after the event.
Dropped(d, ev) ==
    IF ev.type \in {"Disconnected", "Dropped"} /\ d = "no" THEN "seen"
    ELSE IF ev.type \in {"ButtonPressed", "ButtonReleased", "AxisChanged"} /\ d = "seen"
         THEN "served"
         ELSE d

\* The buttons some bit stands for.
MappedButtons == {"South", "East", "North", "West", "LeftTrigger", "LeftTrigger2",
                  "RightTrigger", "Select", "Start", "Mode", "RightTrigger2"}

\* (History) the last events after the event.
Last(l, ev) ==
    CASE ev.type = "ButtonPressed" /\ ev.button \in MappedButtons ->
            [l EXCEPT !.pressed = @ \cup {ev.button}]
      [] ev.type = "ButtonReleased" /\ ev.button \in MappedButtons ->
            [l EXCEPT !.pressed = @ \ {ev.button}]
      [] ev.type = "AxisChanged" -> [l EXCEPT !.axis = <<ev.value>>]
      [] OTHER -> l

\* One event of gilrs.next_event(): filtered out, or applied to the working
\* copy, which is then stored into the shared cell.
InputEvent(id, ev) ==
    /\ Running
    /\ thread_pc = "watching"
    /\ id \in 1..gamepads
    /\ IF Filtered(id)
       THEN UNCHANGED <<key_input, cell, stored, dropped, last>>
       ELSE /\ key_input' = ApplyEvent(key_input, ev)
            /\ cell' = store(cell, key_input')
            /\ stored' = key_input'
            /\ dropped' = Dropped(dropped, ev)
            /\ last' = Last(last, ev)
    /\ UNCHANGED <<gamepads, exit_code, main_pc, thread_pc, join_pc,
                   dispatcher, notifying, samplers, chans, hist, codec,
                   js>>

(* ---------------------------------------------------------------------- *)
(* The characteristic handler (dispatcher)                                 *)
(* ---------------------------------------------------------------------- *)
\* Events reach the handler once a central can have connected, that is
\* while the peripheral advertises.
Dispatching ==
    /\ Running
    /\ dispatcher = "running"
    /\ main_pc = "advertising"

SamplerIds == 1..Len(samplers)

\* Variant: every notifier sends on the first subscriber's channel.
DispatchSubscribe_FirstChannel ==
    /\ Dispatching
    /\ notifying' = TRUE
    /\ chans' = Append(chans, [open |-> TRUE, seq |-> <<>>])
    /\ samplers' = Append(samplers, [pc |-> "loop", counter |-> 0, payload |-> <<>>,
                                     notification |-> 1])
    /\ hist' = Append(hist, [unsubscribed |-> FALSE, ended |-> FALSE, after_end |-> 0])
    /\ UNCHANGED <<gamepads, exit_code, main_pc, thread_pc, join_pc,
                   key_input, cell, dispatcher, codec,
                   stored, dropped, last, js>>

\* Event::NotifySubscribe(notify_subscribe): sets the shared flag and spawns a
\* notifier with its own counter, holding the event's notification sender.
DispatchSubscribe ==
    /\ Dispatching
    /\ notifying' = TRUE
    /\ chans' = Append(chans, [open |-> TRUE, seq |-> <<>>])
    /\ samplers' = Append(samplers, [pc |-> "loop", counter |-> 0, payload |-> <<>>,
                                     notification |-> Len(chans) + 1])
    /\ hist' = Append(hist, [unsubscribed |-> FALSE, ended |-> FALSE, after_end |-> 0])
    /\ UNCHANGED <<gamepads, exit_code, main_pc, thread_pc, join_pc,
                   key_input, cell, dispatcher, codec,
                   stored, dropped, last, js>>

\* Event::NotifyUnsubscribe: clears the shared flag.  (History: it comes
\* after the start of every notifier there is, and the subscription it ends
\* is the most recent one.)
DispatchUnsubscribe ==
    /\ Dispatching
    /\ notifying' = FALSE
    /\ hist' = [i \in SamplerIds |->
                  [hist[i] EXCEPT !.unsubscribed = TRUE,
                                  !.ended = @ \/ i = Len(samplers)]]
    /\ UNCHANGED <<gamepads, exit_code, main_pc, thread_pc, join_pc,
                   key_input, cell, dispatcher, samplers, chans, codec,
                   stored, dropped, last, js>>

\* Variant: an unknown event is taken for an unsubscribe.
DispatchOther_ClearsFlag ==
    /\ Dispatching
    /\ notifying' = FALSE
    /\ UNCHANGED <<gamepads, exit_code, main_pc, thread_pc, join_pc,
                   key_input, cell, dispatcher, samplers, chans, hist, codec,
                   stored, dropped, last, js>>

\* Any other event (a read or a write request): logged, nothing else.
DispatchOther ==
    /\ Dispatching
    /\ UNCHANGED <<gamepads, exit_code, main_pc, thread_pc, join_pc,
                   key_input, cell, dispatcher, notifying, samplers, chans, hist, codec,
                   stored, dropped, last, js>>

(* ---------------------------------------------------------------------- *)
(* The notifier tasks (samplers)                                           *)
(* ---------------------------------------------------------------------- *)
At(i, pc) ==
    /\ Running
    /\ i \in SamplerIds
    /\ samplers[i].pc = pc

\* Variant: the counter advances by 1 between frames.
NextCounter_ByOne(counter) == (counter + 1) % U8Mod

\* counter = (counter + 2) & 0xFF
NextCounter(counter) == (counter + CounterStep) % U8Mod

\* Variant: the test of the flag is inverted.
SamplerCheck_Inverted(i) ==
    /\ At(i, "loop")
    /\ samplers' = [samplers EXCEPT ![i].pc = IF notifying THEN "done" ELSE "reset"]
    /\ UNCHANGED <<gamepads, exit_code, main_pc, thread_pc, join_pc, key_input,
                   cell, dispatcher, notifying, chans, hist, codec,
                   stored, dropped, last, js>>

\* The top of the loop, on the first iteration or when delay_for has
\* elapsed: if !notifying.load() { break }
SamplerCheck(i) ==
    /\ At(i, "loop")
    /\ samplers' = [samplers EXCEPT ![i].pc = IF notifying THEN "reset" ELSE "done"]
    /\ UNCHANGED <<gamepads, exit_code, main_pc, thread_pc, join_pc, key_input,
                   cell, dispatcher, notifying, chans, hist, codec,
                   stored, dropped, last, js>>

\* key_input.store(KeyInput::default())
SamplerReset(i) ==
    /\ At(i, "reset")
    /\ cell' = store(cell, KeyInputDefault)
    /\ stored' = KeyInputDefault
    /\ samplers' = [samplers EXCEPT ![i].pc = "sample"]
    /\ UNCHANGED <<gamepads, exit_code, main_pc, thread_pc, join_pc, key_input,
                   dispatcher, notifying, chans, hist, codec,
                   dropped, last, js>>

\* let payload = key_input.load().to_payload((counter & 0xFF) as u8)
SamplerSample(i) ==
    /\ At(i, "sample")
    /\ \E payload \in to_payload(load(cell), samplers[i].counter % U8Mod) :
         samplers' = [samplers EXCEPT
                        ![i].payload = payload,
                        ![i].pc = IF payload = OverflowPanic THEN "overflow" ELSE "push"]
    /\ UNCHANGED <<gamepads, exit_code, main_pc, thread_pc, join_pc, key_input,
                   cell, dispatcher, notifying, chans, hist, codec,
                   stored, dropped, last, js>>

\* try_send on a fresh clone of the sender: a clone is never parked, so the
\* message is queued whatever the buffer holds, and Err is answered only
\* when the receiver is gone.
Accepts(ch) == chans[ch].open

\* The channel after it queued the frame.
Queued(c, frame) ==
    [c EXCEPT !.seq = IF Len(@) < 2 THEN Append(@, <<frame[5], frame[10]>>)
                      ELSE <<@[2], <<frame[5], frame[10]>>>>]

\* History of a notifier after it queued a frame.
Emitted(h) == [h EXCEPT !.after_end = IF h.ended /\ @ < 2 THEN @ + 1 ELSE @]

\* notification.try_send(payload.to_vec()).unwrap(), then the counter is
\* advanced and the task sleeps in delay_for; a failed try_send panics the
\* task.
SamplerPush(i) ==
    /\ At(i, "push")
    /\ LET ch == samplers[i].notification
       IN  IF Accepts(ch)
           THEN /\ chans' = [chans EXCEPT ![ch] = Queued(@, samplers[i].payload)]
                /\ samplers' = [samplers EXCEPT
                                  ![i].counter = NextCounter(@),
                                  ![i].payload = <<>>,
                                  ![i].pc = "loop"]
                /\ hist' = [hist EXCEPT ![i] = Emitted(@)]
           ELSE /\ samplers' = [samplers EXCEPT ![i].payload = <<>>, ![i].pc = "panicked"]
                /\ UNCHANGED <<chans, hist>>
    /\ UNCHANGED <<gamepads, exit_code, main_pc, thread_pc, join_pc, key_input,
                   cell, dispatcher, notifying, codec,
                   stored, dropped, last, js>>

SamplerStep(i) ==
    \/ SamplerCheck(i)
    \/ SamplerReset(i)
    \/ SamplerSample(i)
    \/ SamplerPush(i)

(* ---------------------------------------------------------------------- *)
(* The receiving end of a notification channel (the BLE stack)             *)
(* ---------------------------------------------------------------------- *)
\* The receiver of the channel is closed or dropped.
ReceiverDrop(ch) ==
    /\ Running
    /\ ch \in 1..Len(chans)
    /\ chans[ch].open
    /\ chans' = [chans EXCEPT ![ch].open = FALSE]
    /\ UNCHANGED <<gamepads, exit_code, main_pc, thread_pc, join_pc, key_input,
                   cell, dispatcher, notifying, samplers, hist, codec,
                   stored, dropped, last, js>>

(* ---------------------------------------------------------------------- *)
(* The whole program                                                       *)
(* ---------------------------------------------------------------------- *)
Press(b) == [type |-> "ButtonPressed", button |-> b, value |-> 0]

Release(b) == [type |-> "ButtonReleased", button |-> b, value |-> 0]

Axis(n) == [type |-> "AxisChanged", button |-> "Unknown", value |-> n]

Plain(t) == [type |-> t, button |-> "Unknown", value |-> 0]

\* The gamepad events the whole-program specification draws from.
EngineEvents == {Press("South"), Release("South")}


\* Frames the first n notifiers have queued (none has wrapped its counter
\* within MaxFrames frames).
RECURSIVE FramesSent(_)
FramesSent(n) ==
    IF n = 0 THEN 0 ELSE FramesSent(n - 1) + samplers[n].counter \div CounterStep

Next ==
    \/ MainCreateInputHandler
    \/ MainPeripheralNew
    \/ MainAddService
    \/ MainIsPowered
    \/ MainRegisterGatt
    \/ MainStartAdvertising
    \/ MainWaitAdvertising
    \/ MainAdvertising
    \/ InputThreadStart
    \/ JoinTask
    \/ \E id \in 1..gamepads, ev \in EngineEvents : InputEvent(id, ev)
    \/ Len(samplers) < MaxSamplers /\ DispatchSubscribe
    \/ DispatchUnsubscribe
    \/ DispatchOther
    \/ \E i \in SamplerIds : FramesSent(Len(samplers)) < MaxFrames /\ SamplerCheck(i)
    \/ \E i \in SamplerIds : SamplerReset(i)
    \/ \E i \in SamplerIds : SamplerSample(i)
    \/ \E i \in SamplerIds : SamplerPush(i)
    \/ \E ch \in 1..Len(chans) : ReceiverDrop(ch)

Spec == Init /\ [][Next]_vars

(* ---------------------------------------------------------------------- *)
(* One subscription followed through the wrap of its counter               *)
(* ---------------------------------------------------------------------- *)
NextWrap ==
    \/ MainCreateInputHandler
    \/ MainPeripheralNew
    \/ MainAddService
    \/ MainIsPowered
    \/ MainRegisterGatt
    \/ MainStartAdvertising
    \/ MainWaitAdvertising
    \/ MainAdvertising
    \/ InputThreadStart
    \/ JoinTask
    \/ \E id \in 1..gamepads, ev \in EngineEvents : InputEvent(id, ev)
    \/ samplers = <<>> /\ DispatchSubscribe
    \/ DispatchUnsubscribe
    \/ DispatchOther
    \/ \E i \in SamplerIds : SamplerCheck(i)
    \/ \E i \in SamplerIds : SamplerReset(i)
    \/ \E i \in SamplerIds : SamplerSample(i)
    \/ \E i \in SamplerIds : SamplerPush(i)
    \/ \E ch \in 1..Len(chans) : ReceiverDrop(ch)

SpecWrap == Init /\ [][NextWrap]_vars

(* ---------------------------------------------------------------------- *)
(* The payload codec on its own                                            *)
(* ---------------------------------------------------------------------- *)
CodecScratch == {0, 1, AxisScale, U8Max}

CodecNormal == {0, B1, B2 + B4, B7, B1 + B2 + B3 + B4 + B5 + B6 + B7}

CodecOption == {0, E1, E4, E1 + E2 + E3 + E4}

CodecStates == [scratch : CodecScratch, normal_button : CodecNormal,
                option_button : CodecOption]

InitCodec ==
    /\ InitProgram
    /\ codec \in [s : CodecStates, c : 0..U8Max, called : {FALSE}, out : {<<>>}]

\* One call s.to_payload(c).
CallToPayload ==
    /\ ~codec.called
    /\ \E out \in to_payload(codec.s, codec.c) :
         codec' = [codec EXCEPT !.called = TRUE, !.out = out]
    /\ UNCHANGED <<gamepads, exit_code, main_pc, thread_pc, join_pc, key_input, cell,
                   dispatcher, notifying, samplers, chans, hist,
                   stored, dropped, last, js>>

NextCodec == CallToPayload

SpecCodec == InitCodec /\ [][NextCodec]_vars

(* ---------------------------------------------------------------------- *)
(* The input handler on its own, with every event gilrs can deliver        *)
(* ---------------------------------------------------------------------- *)
\* Axis values, in units of 1/128: -1.0, 0.0 and 1.0.
AxisSamples == {-AxisScale, 0, AxisScale}

InputEvents ==
    {Press(b) : b \in Buttons} \cup {Release(b) : b \in Buttons}
        \cup {Axis(n) : n \in AxisSamples}
        \cup {Plain(t) : t \in {"ButtonChanged", "ButtonRepeated", "Connected",
                                "Disconnected", "Dropped"}}

\* Number of mapped buttons the working copy holds pressed.
Held(k) ==
    Cardinality({f \in {B1, B2, B3, B4, B5, B6, B7} : contains(k.normal_button, f)})
        + Cardinality({f \in {E1, E2, E3, E4} : contains(k.option_button, f)})

InitInput ==
    /\ gamepads \in 0..MaxGamepads
    /\ InitState
    /\ codec = NoCall

NextInput ==
    \/ MainCreateInputHandler
    \/ InputThreadStart
    \/ JoinTask
    \/ \E id \in 1..gamepads, ev \in InputEvents :
          /\ ev.type = "ButtonPressed" => Held(key_input) < MaxHeld
          /\ InputEvent(id, ev)

SpecInput == InitInput /\ [][NextInput]_vars

(* ---------------------------------------------------------------------- *)
(* The axis conversion of the input handler on its own                     *)
(* ---------------------------------------------------------------------- *)
\* Axis values from -1.0 to 1.0 in steps of 1/128.
AxisGrid == (0 - AxisScale)..AxisScale

InitAxis ==
    /\ InitProgram
    /\ codec \in [s : {KeyInputInit}, c : AxisGrid, called : {FALSE}, out : {<<>>}]

\* The AxisChanged arm applied to a working copy: the scratch it leaves.
CallAxisChanged ==
    /\ ~codec.called
    /\ codec' = [codec EXCEPT !.called = TRUE,
                              !.out = <<ApplyEvent(codec.s, Axis(codec.c)).scratch>>]
    /\ UNCHANGED <<gamepads, exit_code, main_pc, thread_pc, join_pc, key_input, cell,
                   dispatcher, notifying, samplers, chans, hist, stored, dropped, last, js>>

NextAxis == CallAxisChanged

SpecAxis == InitAxis /\ [][NextAxis]_vars

(* ---------------------------------------------------------------------- *)
(* The raw joystick backend (Linux)                                        *)
(* ---------------------------------------------------------------------- *)
\* What the path given to Device::open names: a joystick device the caller
\* may read, nothing, a device the caller has no read permission for, a
\* string with an interior NUL byte, a device while the descriptor table of
\* the process is full.
Paths == {"device", "missing", "forbidden", "nul", "no_descriptor"}

\* open(2) with O_RDONLY, as called through nix::fcntl::open: the errno it
\* fails with ("OK": it returns a descriptor).
open_syscall(path) ==
    CASE path = "device" -> "OK"
      [] path = "missing" -> "ENOENT"
      [] path = "forbidden" -> "EACCES"
      [] path = "nul" -> "EINVAL"
      [] path = "no_descriptor" -> "EMFILE"

\* The closure given to map_err.
map_err(err) ==
    CASE err = "ENOENT" -> "DeviceFileNotFound"
      [] err = "EPERM" -> "PermissionDenied"
      [] err = "EINVAL" -> "InvalidPath"
      [] OTHER -> "Unknown"

\* Device::open(path): Ok(Device(fd)), or the mapped error and no Device.
Device_open(path) ==
    /\ js.pc = "closed"
    /\ LET err == open_syscall(path)
       IN  js' = [js EXCEPT !.path = path,
                            !.pc = IF err = "OK" THEN "open" ELSE "open_failed",
                            !.err = IF err = "OK" THEN "none" ELSE map_err(err)]
    /\ UNCHANGED <<gamepads, exit_code, main_pc, thread_pc, join_pc, key_input, cell,
                   dispatcher, notifying, samplers, chans, hist, codec, stored, dropped, last>>

\* The events of the raw backend.
ButtonPressed(number) ==
    [type |-> "ButtonPressed", number |-> number, value |-> 0, errno |-> "none"]

ButtonReleased(number) ==
    [type |-> "ButtonReleased", number |-> number, value |-> 0, errno |-> "none"]

AxisChanged(number, value) ==
    [type |-> "AxisChanged", number |-> number, value |-> value, errno |-> "none"]

Disconnected == [type |-> "Disconnected", number |-> 0, value |-> 0, errno |-> "none"]

Error(errno) == [type |-> "Error", number |-> 0, value |-> 0, errno |-> errno]

\* unreachable!() panics the caller: no value is returned.
Unreachable == <<[type |-> "unreachable!", number |-> 0, value |-> 0, errno |-> "none"]>>

\* A value as i16: the low 16 bits, two's complement.
AsI16(x) ==
    LET m == x % I16Mod
    IN  IF m >= I16Mod \div 2 THEN m - I16Mod ELSE m

\* Variant: the INIT bit is masked off and the record is decoded.
from_RawEvent_InitDecoded(ev) ==
    LET typ == IF contains(ev.typ, INIT) THEN ev.typ - INIT ELSE ev.typ
    IN  CASE typ = BUTTON ->
                IF ev.value = 0
                THEN Some(ButtonReleased(ev.number))
                ELSE Some(ButtonPressed(ev.number))
          [] typ = AXIS -> Some(AxisChanged(ev.number, AsI16(ev.value * AxisShift)))
          [] OTHER -> Unreachable

\* impl From<RawEvent> for Option<Event>
from_RawEvent(ev) ==
    IF contains(ev.typ, INIT)
    THEN None
    ELSE CASE ev.typ = BUTTON ->
                  IF ev.value = 0
                  THEN Some(ButtonReleased(ev.number))
                  ELSE Some(ButtonPressed(ev.number))
           [] ev.typ = AXIS -> Some(AxisChanged(ev.number, AsI16(ev.value * AxisShift)))
           [] OTHER -> Unreachable

\* Variant: every read failure is reported as Error.
Device_next_AllErrors(r) ==
    IF r.ok
    THEN from_RawEvent(r)
    ELSE Some(Error(r.errno))

\* Iterator::next for Device, given what read(2) answered: a record (its
\* value, typ and number; the byte count is not looked at), or an errno.
Device_next(r) ==
    IF r.ok
    THEN from_RawEvent(r)
    ELSE IF r.errno = "ENODEV"
         THEN Some(Disconnected)
         ELSE Some(Error(r.errno))

\* What read(2) can answer.
RawValues == {-32768, -256, -1, 0, 1, 127, 128, 255, 256, 32767}

RawTypes == {0, BUTTON, AXIS, BUTTON + AXIS, INIT, INIT + BUTTON, INIT + AXIS}

RawNumbers == {0, 1, 255}

ReadErrors == {"ENODEV", "EIO", "EINTR"}

ReadResults ==
    [ok : {TRUE}, value : RawValues, typ : RawTypes, number : RawNumbers, errno : {"none"}]
        \cup [ok : {FALSE}, value : {0}, typ : {0}, number : {0}, errno : ReadErrors]

\* The loop reading the device: it takes the next item; no event (an INIT
\* record) is skipped, Disconnected and Error end the loop, any other event
\* is handed on.
ReadLoop(r) ==
    /\ js.pc = "open"
    /\ LET out == Device_next(r)
       IN  js' = [js EXCEPT
                    !.rec = r,
                    !.out = out,
                    !.pc = IF out = Unreachable THEN "panicked"
                           ELSE IF out # None /\ out[1].type \in {"Disconnected", "Error"}
                                THEN "terminated"
                                ELSE "open"]
    /\ UNCHANGED <<gamepads, exit_code, main_pc, thread_pc, join_pc, key_input, cell,
                   dispatcher, notifying, samplers, chans, hist, codec, stored, dropped, last>>

NextRaw ==
    \/ \E path \in Paths : Device_open(path)
    \/ \E r \in ReadResults : ReadLoop(r)

SpecRaw == Init /\ [][NextRaw]_vars

(* ---------------------------------------------------------------------- *)
(* The whole program under fair scheduling of the notifier tasks           *)
(* ---------------------------------------------------------------------- *)
\* A step of notifier i; each notifier is followed until it has queued its
\* first frame (its counter is still 0 when it checks the flag), and on from
\* there whenever the flag is cleared.
LiveSamplerStep(i) ==
    /\ i \in SamplerIds
    /\ \/ (samplers[i].counter = 0 \/ ~notifying) /\ SamplerCheck(i)
       \/ SamplerReset(i)
       \/ SamplerSample(i)
       \/ SamplerPush(i)

NextLive ==
    \/ MainCreateInputHandler
    \/ MainPeripheralNew
    \/ MainAddService
    \/ MainIsPowered
    \/ MainRegisterGatt
    \/ MainStartAdvertising
    \/ MainWaitAdvertising
    \/ MainAdvertising
    \/ InputThreadStart
    \/ JoinTask
    \/ \E id \in 1..gamepads, ev \in EngineEvents : InputEvent(id, ev)
    \/ Len(samplers) < MaxSamplers /\ DispatchSubscribe
    \/ DispatchUnsubscribe
    \/ DispatchOther
    \/ \E i \in 1..MaxSamplers : LiveSamplerStep(i)
    \/ \E ch \in 1..Len(chans) : ReceiverDrop(ch)

\* The runtime runs every spawned task that is ready: a notifier is ready at
\* each of its steps (its sleep always elapses).
SpecLive ==
    /\ Init
    /\ [][NextLive]_vars
    /\ \A i \in 1..MaxSamplers : WF_vars(LiveSamplerStep(i))

(* ---------------------------------------------------------------------- *)
(* Properties                                                              *)
(* ---------------------------------------------------------------------- *)

\* C1: no step of a notifier (flag check, reset, sample and encode, push
\* with counter advance and sleep) changes the value held in the shared cell.
C1_SamplerLeavesCell ==
    [][\A i \in SamplerIds : SamplerStep(i) => cell' = cell]_vars

\* C2: the payload a notifier samples carries the scratch, the normal-button
\* bits and the option-button bits of the state the input handler published
\* last (its working copy, stored after every event it applies).
C2_PayloadCarriesPublished ==
    [][\A i \in SamplerIds :
          (SamplerSample(i) /\ samplers'[i].pc = "push") =>
              /\ samplers'[i].payload[1] = key_input.scratch
              /\ samplers'[i].payload[3] = key_input.normal_button
              /\ samplers'[i].payload[4] = key_input.option_button]_vars

\* C3: for every state s and every counter c in 0..255 the call
\* to_payload(s, c) returns the frame [scratch, 0, normal, option, c,
\* scratch, 0, normal, option, (c + 1) mod 256], c = 255 included.
C3_ToPayloadFrame ==
    codec.called =>
        codec.out = <<codec.s.scratch, 0, codec.s.normal_button, codec.s.option_button,
                      codec.c,
                      codec.s.scratch, 0, codec.s.normal_button, codec.s.option_button,
                      (codec.c + 1) % 256>>

\* C4: on the channel of a subscription the first frame carries counter 0,
\* and of two consecutive frames the later one's byte 4 is the earlier one's
\* byte 4 plus 2 and the earlier one's byte 9 plus 1, modulo 256.
C4_ContiguousCounter ==
    \A ch \in 1..Len(chans) :
        LET q == chans[ch].seq
        IN  /\ Len(q) = 1 => q[1] = <<0, 1>>
            /\ Len(q) = 2 => /\ q[2][1] = (q[1][1] + 2) % 256
                             /\ q[2][1] = (q[1][2] + 1) % 256

\* A subscription has wrapped: its last two frames carry 254/255 and 0/1.
C4_Wrapped ==
    \E ch \in 1..Len(chans) : chans[ch].seq = <<<<254, 255>>, <<0, 1>>>>

\* C5: once the NotifyUnsubscribe that ends its subscription is dispatched,
\* a notifier queues at most one further payload.
C5_AtMostOneAfterUnsubscribe ==
    \A i \in SamplerIds : hist[i].after_end <= 1

\* Notifier i has queued a payload on its subscriber's channel.
HasEmitted(i) ==
    /\ i \in SamplerIds
    /\ chans[samplers[i].notification].seq # <<>>

\* C6 as stated: once a NotifySubscribe has been dispatched, its notifier
\* eventually queues a payload on the subscriber's channel (as long as the
\* process runs).
C6_SubscribeEmits ==
    \A i \in 1..MaxSamplers : (i \in SamplerIds) ~> (HasEmitted(i) \/ ~Running)

\* C6 amended: once a NotifySubscribe has been dispatched, its notifier
\* eventually queues a payload on the subscriber's channel, unless its push
\* fails, or it leaves the loop at its first flag check after a
\* NotifyUnsubscribe was dispatched behind the subscribe, or the process ends.
C6_SubscribeEmitsUnlessCancelled ==
    \A i \in 1..MaxSamplers :
        (i \in SamplerIds) ~>
            \/ ~Running
            \/ HasEmitted(i)
            \/ i \in SamplerIds /\ samplers[i].pc = "panicked"
            \/ i \in SamplerIds /\ samplers[i].pc = "done" /\ hist[i].unsubscribed

\* A second subscription's notifier has queued its first payload while the
\* process runs.
C6_SecondSubscriberServed ==
    /\ Running
    /\ Len(samplers) = 2
    /\ chans[samplers[2].notification].seq = <<<<0, 1>>>>

\* C7: a dispatched NotifySubscribe starts exactly one notifier, at the top
\* of its loop with counter 0 and holding the event's own channel, and leaves
\* the others as they are; a step of one notifier changes no other
\* notifier's counter and queues nothing on another notifier's channel.
C7_OneSamplerPerSubscribe ==
    [][/\ DispatchSubscribe =>
            /\ Len(samplers') = Len(samplers) + 1
            /\ Len(chans') = Len(chans) + 1
            /\ samplers'[Len(samplers')].pc = "loop"
            /\ samplers'[Len(samplers')].counter = 0
            /\ samplers'[Len(samplers')].notification = Len(chans')
            /\ \A j \in SamplerIds :
                  /\ samplers'[j] = samplers[j]
                  /\ samplers[j].notification # Len(chans')
       /\ \A i \in SamplerIds :
            SamplerStep(i) =>
                /\ Len(samplers') = Len(samplers)
                /\ \A j \in SamplerIds \ {i} :
                      /\ samplers'[j].counter = samplers[j].counter
                      /\ chans'[samplers[j].notification] = chans[samplers[j].notification]
      ]_vars

\* Two notifiers are in the middle of an iteration at once, the first with
\* a frame queued on its channel and its counter advanced, the second, started
\* by a later NotifySubscribe, still at counter 0 with nothing on its channel.
C7_TwoSamplersSending ==
    \E i, j \in SamplerIds :
        /\ i < j
        /\ samplers[i].pc = "push"
        /\ samplers[j].pc = "sample"
        /\ samplers[i].counter = CounterStep
        /\ samplers[j].counter = 0
        /\ chans[samplers[i].notification].seq = <<<<0, 1>>>>
        /\ chans[samplers[j].notification].seq = <<>>

\* C8: dispatching an event other than NotifySubscribe and NotifyUnsubscribe
\* changes neither the flag, nor the notifiers and their counters, nor the
\* channels, nor the shared cell, and the dispatcher keeps running.
C8_OtherEventIgnored ==
    [][DispatchOther =>
          /\ UNCHANGED <<notifying, samplers, chans, cell>>
          /\ dispatcher' = "running"]_vars

\* Such an event is dispatched while a notifier is in the middle of an
\* iteration and the cell holds a pressed button; the step leads back to
\* this state.
C8_OtherEventWhileSampling ==
    /\ Dispatching
    /\ notifying
    /\ cell # KeyInputDefault
    /\ \E i \in SamplerIds : samplers[i].pc = "push" /\ samplers[i].counter > 0

\* C9: a failed push is fatal for the process: no state has a notifier whose
\* try_send failed while the process is still running.
C9_PushFailureFatal ==
    \A i \in SamplerIds : samplers[i].pc = "panicked" => exit_code = "failure"

\* C10: with no gamepad enumerated the process never gets past adding the
\* GATT service, and once the input handler has found no gamepad the process
\* has ended with a failure.
C10_NoGamepadFatal ==
    gamepads = 0 =>
        /\ ~ServiceAdded
        /\ thread_pc = "panicked" => exit_code = "failure"

\* C11: the shared cell always holds, whole, the value of the most recent
\* completed store (the initial all-zero state before any store), and every
\* load of a notifier returns exactly that value: the scratch, normal-button
\* and option-button bytes of the payload it builds are those of that one
\* store, whatever stores of the input handler and resets of the notifiers
\* were interleaved before it.
C11_LoadReturnsLastStore ==
    [][/\ load(cell') = stored'
       /\ \A i \in SamplerIds :
             (SamplerSample(i) /\ samplers'[i].pc = "push") =>
                 /\ samplers'[i].payload[1] = stored.scratch
                 /\ samplers'[i].payload[3] = stored.normal_button
                 /\ samplers'[i].payload[4] = stored.option_button]_vars

\* A notifier has loaded the value the input handler stored between the
\* notifier's reset and its load, while another store has already followed.
C11_LoadAfterInterleavedStore ==
    \E i \in SamplerIds :
        /\ samplers[i].pc = "push"
        /\ samplers[i].payload[3] = B1
        /\ stored = KeyInputDefault
        /\ cell = KeyInputDefault
        /\ key_input.normal_button = 0

\* The bit the claim gives each normal-button input (0: none).
C12_NormalBit(b) ==
    CASE b = "South" -> 1
      [] b = "East" -> 2
      [] b = "North" -> 4
      [] b = "West" -> 8
      [] b = "LeftTrigger" -> 16
      [] b = "LeftTrigger2" -> 32
      [] b = "RightTrigger" -> 64
      [] OTHER -> 0

\* The bit the claim gives each option-button input (0: none).
C12_OptionBit(b) ==
    CASE b = "Select" -> 1
      [] b = "Start" -> 2
      [] b = "Mode" -> 4
      [] b = "RightTrigger2" -> 8
      [] OTHER -> 0

\* Bit-set `after` is bit-set `before` with bit `bit` set (on) or cleared.
C12_Changed(before, after, bit, on) ==
    \A k \in {1, 2, 4, 8, 16, 32, 64} :
        ((after \div k) % 2 = 1) <=>
            IF k = bit THEN on ELSE (before \div k) % 2 = 1

\* C12: South, East, North, West, LeftTrigger, LeftTrigger2, RightTrigger map
\* to the single bits B1..B7 in order, Select, Start, Mode, RightTrigger2 to
\* E1..E4 in order, no button to both sets, two buttons never to the same
\* bit; a press of the selected gamepad sets exactly that bit, a release
\* clears exactly that bit, and a press or release of any other button
\* leaves both bit-sets unchanged.
C12_ButtonMapping ==
    /\ \A b \in Buttons :
          /\ normal_button(b) = IF C12_NormalBit(b) = 0 THEN None ELSE Some(C12_NormalBit(b))
          /\ option_button(b) = IF C12_OptionBit(b) = 0 THEN None ELSE Some(C12_OptionBit(b))
          /\ normal_button(b) = None \/ option_button(b) = None
          /\ \A c \in Buttons \ {b} :
                /\ normal_button(b) # None => normal_button(c) # normal_button(b)
                /\ option_button(b) # None => option_button(c) # option_button(b)
    /\ [][\A b \in Buttons, on \in BOOLEAN :
            InputEvent(gamepad_id, IF on THEN Press(b) ELSE Release(b)) =>
                /\ C12_Changed(key_input.normal_button, key_input'.normal_button,
                               C12_NormalBit(b), on)
                /\ C12_Changed(key_input.option_button, key_input'.option_button,
                               C12_OptionBit(b), on)
                /\ key_input'.scratch = key_input.scratch]_vars

\* A button of each set is held, South and RightTrigger2, and the state
\* is published.
C12_BothSetsHeld ==
    /\ thread_pc = "watching"
    /\ key_input.normal_button = 1
    /\ key_input.option_button = 8
    /\ cell = key_input

\* C13: Device::open of a nonexistent path fails with DeviceFileNotFound, of
\* a path the caller has no permission for with PermissionDenied, of an
\* invalid path with InvalidPath, on every other OS error with Unknown, and
\* after any failure there is no device handle.
C13_OpenErrorTaxonomy ==
    /\ js.path = "device" => js.pc # "open_failed"
    /\ js.path = "missing" => js.pc = "open_failed" /\ js.err = "DeviceFileNotFound"
    /\ js.path = "forbidden" => js.pc = "open_failed" /\ js.err = "PermissionDenied"
    /\ js.path = "nul" => js.pc = "open_failed" /\ js.err = "InvalidPath"
    /\ js.path = "no_descriptor" => js.pc = "open_failed" /\ js.err = "Unknown"

\* C14: an event of a gamepad other than the selected (first enumerated)
\* one changes neither the working copy nor the shared cell, no store is
\* performed, and the input handler keeps watching.
C14_OtherGamepadFiltered ==
    [][\A id \in 1..MaxGamepads + 1, ev \in InputEvents :
          (id # gamepad_id /\ InputEvent(id, ev)) =>
              /\ UNCHANGED <<key_input, cell, stored>>
              /\ thread_pc' = "watching"]_vars

\* A second gamepad is attached while the selected one holds South and its
\* axis is at the maximum: every event of the second one is filtered here.
C14_SecondGamepadAttached ==
    /\ gamepads >= 2
    /\ thread_pc = "watching"
    /\ key_input.normal_button = 1
    /\ key_input.scratch = 255
    /\ cell = key_input

\* The press, release and axis events of InputEvents.
C15_StateEvents ==
    {ev \in InputEvents : ev.type \in {"ButtonPressed", "ButtonReleased", "AxisChanged"}}

\* C15: a Disconnected or Dropped event of the selected gamepad leaves the
\* button bits and scratch of the working copy unchanged and the handler
\* watching; once one was seen the handler still watches, every press,
\* release or axis event of the selected gamepad can still be taken, and
\* taking it applies it to the working copy and publishes the result.
C15_DropDoesNotStop ==
    /\ [](dropped # "no" =>
            /\ thread_pc = "watching"
            /\ \A ev \in C15_StateEvents :
                  (ev.type = "ButtonPressed" => Held(key_input) < MaxHeld) =>
                      ENABLED InputEvent(gamepad_id, ev))
    /\ [][/\ \A t \in {"Disconnected", "Dropped"} :
              InputEvent(gamepad_id, Plain(t)) =>
                  /\ key_input' = key_input
                  /\ thread_pc' = "watching"
          /\ \A ev \in C15_StateEvents :
              (dropped # "no" /\ InputEvent(gamepad_id, ev)) =>
                  /\ key_input' = ApplyEvent(key_input, ev)
                  /\ cell' = key_input']_vars

\* After a Disconnected or Dropped event the handler has processed a press:
\* South is held and published.
C15_PressAfterDrop ==
    /\ dropped = "served"
    /\ thread_pc = "watching"
    /\ key_input.normal_button = 1
    /\ cell = key_input

\* C16: after a record was read, an INIT record has yielded no event and the
\* loop goes on reading; a BUTTON record without INIT has yielded
\* ButtonReleased(number) for value 0 and ButtonPressed(number) otherwise; an
\* AXIS record without INIT has yielded AxisChanged(number, v), v being the
\* value times 2^8 cut to a signed 16-bit number; and the loop goes on.
C16_RecordDecoding ==
    js.rec.ok =>
        /\ (js.rec.typ \div 128) % 2 = 1 =>
              /\ js.out = <<>>
              /\ js.pc = "open"
        /\ js.rec.typ = 1 =>
              /\ Len(js.out) = 1
              /\ js.out[1].type = IF js.rec.value = 0 THEN "ButtonReleased" ELSE "ButtonPressed"
              /\ js.out[1].number = js.rec.number
              /\ js.pc = "open"
        /\ js.rec.typ = 2 =>
              /\ Len(js.out) = 1
              /\ js.out[1].type = "AxisChanged"
              /\ js.out[1].number = js.rec.number
              /\ js.out[1].value \in -32768..32767
              /\ (js.out[1].value - js.rec.value * 256) % 65536 = 0
              /\ js.pc = "open"

\* A record with the INIT and AXIS bits and value 255 was read and has
\* yielded nothing: the loop is ready for the next record.
C16_InitSkipped ==
    /\ js.pc = "open"
    /\ js.rec.ok
    /\ js.rec.typ = 128 + 2
    /\ js.rec.value = 255
    /\ js.out = <<>>

C18_AxisFloor ==
    codec.called =>
        /\ codec.out[1] = codec.c + 128
        /\ codec.out[1] \in 0..255

\* C18 amended: for every axis value v = c/128 in [-1.0, 1.0] the scratch is
\* floor((v + 1.0) * 128) capped at 255 and lies in 0..255: it never wraps,
\* v = -1.0 gives 0, v = 0 gives 128 and v = 1.0 gives 255.
C18_AxisFloorCapped ==
    codec.called =>
        /\ codec.out[1] = IF codec.c + 128 > 255 THEN 255 ELSE codec.c + 128
        /\ codec.out[1] \in 0..255
        /\ codec.c = -128 => codec.out[1] = 0
        /\ codec.c = 0 => codec.out[1] = 128
        /\ codec.c = 128 => codec.out[1] = 255

\* The maximum axis value 1.0 was converted: the scratch is 255.
C18_MaximumConverted ==
    /\ codec.called
    /\ codec.c = 128
    /\ codec.out = <<255>>

\* C19: the counter of every notifier is an even number in 0..254 in every
\* state, so the counter + 1 of to_payload is at most 255: no call of
\* to_payload by a notifier overflows, however many frames were sent.
C19_CounterEvenNoOverflow ==
    \A i \in SamplerIds :
        /\ samplers[i].counter \in 0..254
        /\ samplers[i].counter % 2 = 0
        /\ samplers[i].pc # "overflow"
        /\ samplers[i].pc = "push" =>
              /\ Len(samplers[i].payload) = 10
              /\ samplers[i].payload[5] = samplers[i].counter
              /\ samplers[i].payload[10] = samplers[i].counter + 1

\* A notifier has encoded its 128th frame: counter 254, last byte 255.
C19_LastCounterEncoded ==
    \E i \in SamplerIds :
        /\ samplers[i].pc = "push"
        /\ samplers[i].counter = 254
        /\ samplers[i].payload[10] = 255

\* Notifier i has left its loop or its task has ended in a panic.
C20_Exited(i) == samplers[i].pc \in {"done", "panicked", "overflow"}

\* C20: whenever the flag is cleared, every notifier there is, whichever
\* NotifySubscribe started it, eventually exits unless a NotifySubscribe sets
\* the flag again (or the process ends); once all notifiers have exited,
\* without a further NotifySubscribe none runs again and nothing more is
\* queued on any channel; and a NotifyUnsubscribe dispatched while no
\* notifier runs changes nothing.
C20_UnsubscribeStopsAll ==
    /\ \A i \in 1..MaxSamplers :
          (i \in SamplerIds /\ ~notifying) ~>
              \/ ~Running
              \/ notifying
              \/ i \in SamplerIds /\ C20_Exited(i)
    /\ [][/\ ((\A i \in SamplerIds : C20_Exited(i)) /\ ~DispatchSubscribe /\ Running') =>
              /\ samplers' = samplers
              /\ \A ch \in 1..Len(chans) : chans'[ch].seq = chans[ch].seq
          /\ ((\A i \in SamplerIds : C20_Exited(i)) /\ DispatchUnsubscribe) =>
              UNCHANGED <<notifying, samplers, chans, cell, key_input, dispatcher>>]_vars

\* The working copy has the bit the table gives button b.
C21_BitSet(k, b) ==
    IF C12_NormalBit(b) # 0
    THEN (k.normal_button \div C12_NormalBit(b)) % 2 = 1
    ELSE (k.option_button \div C12_OptionBit(b)) % 2 = 1

\* C21: after any sequence of events of the selected gamepad the working
\* copy has the bit of a mapped button set exactly when the last press or
\* release event for that button was a press, and its scratch is the
\* conversion of the last axis event (0 if there was none); each press,
\* release or axis event changes only its own bit or the scratch, and after
\* each processed event the value stored to the shared cell is the working
\* copy.
C21_LastEventsDecide ==
    /\ [](/\ \A b \in MappedButtons : C21_BitSet(key_input, b) <=> b \in last.pressed
          /\ key_input.scratch =
                IF last.axis = <<>> THEN 0 ELSE AxisToScratch(last.axis[1]))
    /\ [][\A ev \in InputEvents :
            InputEvent(gamepad_id, ev) =>
                /\ cell' = key_input'
                /\ stored' = key_input'
                /\ \A b \in MappedButtons :
                      (ev.type \in {"ButtonPressed", "ButtonReleased"} /\ ev.button = b)
                          \/ (C21_BitSet(key_input', b) <=> C21_BitSet(key_input, b))
                /\ ev.type = "AxisChanged" \/ key_input'.scratch = key_input.scratch]_vars

\* The last press or release event of East and of Start was a press, of
\* every other mapped button a release or none, the last axis event carried
\* the maximum, and the state is published.
C21_PressedAgainAndAxis ==
    /\ thread_pc = "watching"
    /\ last = [pressed |-> {"East", "Start"}, axis |-> <<AxisScale>>]
    /\ key_input = [scratch |-> U8Max, normal_button |-> B2, option_button |-> E2]
    /\ cell = key_input

====
